---- MODULE Spec2Model ----
(***************************************************************************)
(* StringGate (src/behaviour/entity/gate/string_gate.rs): a reactive gate  *)
(* that derives the RESULT property of a host entity from its LHS and RHS  *)
(* properties.  new() builds the pipeline                                  *)
(*     lhs.map(decode) merge rhs.map(decode) -> fold(Expression) -> map(f) *)
(* and registers one observer, tagged with handle_id, that writes every    *)
(* derived value into the host's RESULT property.  disconnect() removes    *)
(* that observer; drop() calls disconnect().                               *)
(*                                                                         *)
(* Every propagation is synchronous, so one call (lhs, rhs, disconnect,    *)
(* drop, result, new, or a direct write of a host property) is one action  *)
(* in Spec (one gate) and SpecAttach (two gates on one host); SpecConc     *)
(* splits lhs and rhs into the store and the send of concurrent callers.   *)
(***************************************************************************)
EXTENDS Naturals, Sequences, FiniteSets

(***************************************************************************)
(* Bounds of the model.                                                    *)
(***************************************************************************)
\* how many values are pushed to the host's input properties in one run
MaxPushes == 3
\* how many explicit disconnect() calls one gate receives
MaxDisconnects == 2

(***************************************************************************)
(* Values.  A serde_json::Value is a record: kind tells the JSON shape and *)
(* s is its text.                                                          *)
(***************************************************************************)
Str(s) == [kind |-> "string", s |-> s]
Number == [kind |-> "number", s |-> "7"]
NoValue == [kind |-> "none", s |-> ""]

Strings == {"foo", "bar", "baz"}
NonStrings == {Number}
\* the values a caller pushes
Values == {Str(s) : s \in Strings} \cup NonStrings
\* what the host's RESULT property may hold before a gate is attached
InitialResults == {Str(""), Str("old")}

\* StringGateProperties: the names of the three properties of the host
LHS == "lhs"
RHS == "rhs"
RESULT == "result"
PropertyNames == {LHS, RHS, RESULT}
\* the host schemas: complete, or lacking one property
Schemas == {PropertyNames} \cup {PropertyNames \ {n} : n \in PropertyNames}

\* StringGateProperties::X.default_value(): the schema default of a side
default_value(pos) == ""

\* the gates that may be attached to the host entity
Gates == {1, 2}
\* the gate of the single-gate specification Spec; a second gate on the
\* same host stays "absent" there
SoloGates == {1}

\* the threads of the host system that call a gate concurrently
Threads == {"t1", "t2"}
\* a thread that is in no call
Idle == [pos |-> "idle", v |-> NoValue]

VARIABLES
    props,        \* the host entity's properties: name -> current Value
    phase,        \* per gate: "absent", "constructed", "failed" (new panicked), "dropped"
    expression,   \* per gate: the folded Expression state [lhs, rhs]
    subscribers,  \* per gate: handle ids of the observers on internal_result
    order,        \* gates in the order their pipelines subscribed to the host
    failure,      \* "none", "schema" (new() panicked), "remove" (remove() failed)
    returned,     \* the Value result() returned, while no later call has been made
    initial,      \* ghost: the host's properties before any operation
    seen,         \* ghost, per gate: the pushes its pipeline received
    writes,       \* ghost: the writes to RESULT made by observers, in order
    disconnects,  \* ghost, per gate: number of disconnect() invocations
    npush,        \* ghost: number of pushes so far
    pending       \* per calling thread: the push it has stored but not yet sent

vars == <<props, phase, expression, subscribers, order, failure, returned,
          initial, seen, writes, disconnects, npush, pending>>

(***************************************************************************)
(* The pipeline stages built by new().                                     *)
(***************************************************************************)
\* Expression::new(lhs, rhs)
ExpressionNew(l, r) == [lhs |-> l, rhs |-> r]

\* a bug: the text of a value of any shape is taken as the string
DecodeLhsRawText(v) == <<LHS, v.s>>

\* the map on the LHS stream: v.as_str(), or the default of LHS
DecodeLhs(v) ==
    IF v.kind = "string" THEN <<LHS, v.s>> ELSE <<LHS, default_value(LHS)>>

\* a bug: the RHS map tags its events LHS
DecodeRhsTaggedLhs(v) ==
    IF v.kind = "string" THEN <<LHS, v.s>> ELSE <<LHS, default_value(RHS)>>

\* the map on the RHS stream: v.as_str(), or the default of RHS
DecodeRhs(v) ==
    IF v.kind = "string" THEN <<RHS, v.s>> ELSE <<RHS, default_value(RHS)>>

\* the tagged event the merged stream carries for a push on `pos`
Tagged(pos, v) == IF pos = LHS THEN DecodeLhs(v) ELSE DecodeRhs(v)

\* a bug: the new state is built from the event alone, the other side reset
FoldStepResetsOther(old_state, tv) ==
    IF tv[1] = LHS THEN ExpressionNew(tv[2], default_value(RHS))
                   ELSE ExpressionNew(default_value(LHS), tv[2])

\* a bug: a side that holds a value keeps it
FoldStepFirstWins(old_state, tv) ==
    IF tv[1] = LHS
    THEN (IF old_state.lhs = "" THEN [old_state EXCEPT !.lhs = tv[2]] ELSE old_state)
    ELSE (IF old_state.rhs = "" THEN [old_state EXCEPT !.rhs = tv[2]] ELSE old_state)

\* the fold closure: replace the field the tag names
FoldStep(old_state, tv) ==
    IF tv[1] = LHS THEN [old_state EXCEPT !.lhs = tv[2]]
                   ELSE [old_state EXCEPT !.rhs = tv[2]]

\* the injected StringGateFunction: string concatenation
f(l, r) == l \o r

\* a bug: the operands are passed in the wrong order
InternalResultSwapped(e) == f(e.rhs, e.lhs)

\* internal_result = expression.map(|e| f(e.lhs, e.rhs))
InternalResult(e) == f(e.lhs, e.rhs)

\* handle_id: the id of the host's RESULT property
handle_id == "id-of-result-property"

(***************************************************************************)
(* The host entity.                                                        *)
(***************************************************************************)
\* entity.set(name, value): point write of a property the entity has
EntitySet(p, name, v) == IF name \in DOMAIN p THEN [p EXCEPT ![name] = v] ELSE p

\* a bug: the observer writes the derived value to the LHS property
ObserverWriteToLhs(p, v) == EntitySet(p, LHS, Str(v))

\* the observer closure: e.set(RESULT, json!(*v))
ObserverWrite(p, v) == EntitySet(p, RESULT, Str(v))

\* a pipeline receives events while its gate owns it
Live(g) == phase[g] = "constructed"

\* a bug: the fold does not read the previous state
FoldedFromDefaults(pos, v) ==
    [g \in Gates |->
        IF phase[g] = "constructed"
        THEN FoldStep(ExpressionNew(default_value(LHS), default_value(RHS)),
                      Tagged(pos, v))
        ELSE expression[g]]

\* the fold states after the host pushed v on `pos`
Folded(pos, v) ==
    [g \in Gates |-> IF Live(g) THEN FoldStep(expression[g], Tagged(pos, v))
                                ELSE expression[g]]

\* a bug: a derived value equal to the previous one is not emitted
RECURSIVE EmittedDistinct(_, _)
EmittedDistinct(gs, exprs) ==
    IF gs = <<>> THEN <<>>
    ELSE LET g == Head(gs)
             mine == IF phase[g] = "constructed"
                        /\ f(exprs[g].lhs, exprs[g].rhs)
                              # f(expression[g].lhs, expression[g].rhs)
                     THEN [i \in 1..Len(subscribers[g]) |->
                              [gate |-> g, value |-> f(exprs[g].lhs, exprs[g].rhs)]]
                     ELSE <<>>
         IN  mine \o EmittedDistinct(Tail(gs), exprs)

\* a bug: a derived value is emitted only once both sides hold a value
RECURSIVE EmittedWhenBothSet(_, _)
EmittedWhenBothSet(gs, exprs) ==
    IF gs = <<>> THEN <<>>
    ELSE LET g == Head(gs)
             mine == IF phase[g] = "constructed" /\ exprs[g].lhs # "" /\ exprs[g].rhs # ""
                     THEN [i \in 1..Len(subscribers[g]) |->
                              [gate |-> g, value |-> f(exprs[g].lhs, exprs[g].rhs)]]
                     ELSE <<>>
         IN  mine \o EmittedWhenBothSet(Tail(gs), exprs)

\* the writes the observers of the gates gs make for one merged event, in
\* subscription order: one per observer registered on internal_result
RECURSIVE Emitted(_, _)
Emitted(gs, exprs) ==
    IF gs = <<>> THEN <<>>
    ELSE LET g == Head(gs)
             mine == IF Live(g)
                     THEN [i \in 1..Len(subscribers[g]) |->
                              [gate |-> g, value |-> InternalResult(exprs[g])]]
                     ELSE <<>>
         IN  mine \o Emitted(Tail(gs), exprs)

RECURSIVE ApplyWrites(_, _)
ApplyWrites(p, ws) ==
    IF ws = <<>> THEN p
    ELSE ApplyWrites(ObserverWrite(p, Head(ws).value), Tail(ws))

\* the gate is registered: disconnect() was never invoked on it
Connected(g) == phase[g] = "constructed" /\ disconnects[g] = 0

\* the property's stream sends v, with the host's properties being p: every
\* pipeline is driven to completion (merge, fold, map, observer)
Propagate(p, pos, v) ==
    LET exprs == Folded(pos, v)
        ws == Emitted(order, exprs)
        p2 == ApplyWrites(p, ws)
    IN  /\ props' = p2
        /\ expression' = exprs
        /\ writes' = writes \o ws
        /\ seen' = [g \in Gates |->
                      IF Live(g)
                      THEN Append(seen[g], [pos |-> pos, v |-> v,
                                            conn |-> disconnects[g] = 0,
                                            res |-> p2[RESULT]])
                      ELSE seen[g]]

\* entity.set(pos, v) on an input property: the value is stored, then pushed
\* on the property's stream
Push(pos, v) ==
    /\ Propagate(EntitySet(props, pos, v), pos, v)
    /\ npush' = npush + 1

(***************************************************************************)
(* Stream::remove(handle_id).  Removing a registered handle removes its    *)
(* observer.  The outcome of removing a handle that is not registered is   *)
(* not fixed: it is a no-op or a failure.                                  *)
(***************************************************************************)
Without(subs, h) == SelectSeq(subs, LAMBDA x : x # h)

RemoveOutcomes(subs, h) ==
    IF \E i \in 1..Len(subs) : subs[i] = h
    THEN {[subs |-> Without(subs, h), failed |-> FALSE]}
    ELSE {[subs |-> subs, failed |-> FALSE], [subs |-> subs, failed |-> TRUE]}

(***************************************************************************)
(* Operations.                                                             *)
(***************************************************************************)
Init ==
    /\ \E sch \in Schemas, r \in InitialResults :
          props = [n \in sch |-> IF n = RESULT THEN r ELSE Str(default_value(n))]
    /\ initial = props
    /\ phase = [g \in Gates |-> "absent"]
    /\ expression = [g \in Gates |-> ExpressionNew("", "")]
    /\ subscribers = [g \in Gates |-> <<>>]
    /\ order = <<>>
    /\ failure = "none"
    /\ returned = NoValue
    /\ seen = [g \in Gates |-> <<>>]
    /\ writes = <<>>
    /\ disconnects = [g \in Gates |-> 0]
    /\ npush = 0
    /\ pending = [t \in Threads |-> Idle]

\* a bug: the RESULT property is not looked up
NewSucceedsUncheckedResult(p) == LHS \in DOMAIN p /\ RHS \in DOMAIN p

\* whether new() finds the properties it unwraps
NewSucceeds(p) == LHS \in DOMAIN p /\ RHS \in DOMAIN p /\ RESULT \in DOMAIN p

\* StringGate::new(e, f)
New(g) ==
    /\ phase[g] = "absent"
    /\ IF NewSucceeds(props)
       THEN /\ phase' = [phase EXCEPT ![g] = "constructed"]
            /\ expression' = [expression EXCEPT
                   ![g] = ExpressionNew(default_value(LHS), default_value(RHS))]
            /\ subscribers' = [subscribers EXCEPT ![g] = Append(@, handle_id)]
            /\ order' = Append(order, g)
            /\ UNCHANGED failure
       ELSE /\ phase' = [phase EXCEPT ![g] = "failed"]
            /\ failure' = "schema"
            /\ UNCHANGED <<pending, expression, subscribers, order>>
    /\ returned' = NoValue
    /\ UNCHANGED <<pending, props, initial, seen, writes, disconnects, npush>>

\* a bug: lhs() writes the RHS property
LhsWritesRhs(g, v) ==
    /\ phase[g] = "constructed"
    /\ npush < MaxPushes
    /\ Push(RHS, v)
    /\ returned' = NoValue
    /\ UNCHANGED <<pending, phase, subscribers, order, failure, initial, disconnects>>

\* a bug: lhs() on a disconnected gate does not reach the host
LhsIgnoredWhenDisconnected(g, v) ==
    /\ phase[g] = "constructed"
    /\ npush < MaxPushes
    /\ IF subscribers[g] = <<>>
       THEN /\ npush' = npush + 1
            /\ seen' = [seen EXCEPT ![g] =
                           Append(@, [pos |-> LHS, v |-> v,
                                      conn |-> disconnects[g] = 0,
                                      res |-> props[RESULT]])]
            /\ UNCHANGED <<props, expression, writes>>
       ELSE Push(LHS, v)
    /\ returned' = NoValue
    /\ UNCHANGED <<pending, phase, subscribers, order, failure, initial, disconnects>>

\* Operation::lhs(value)
Lhs(g, v) ==
    /\ phase[g] = "constructed"
    /\ npush < MaxPushes
    /\ Push(LHS, v)
    /\ returned' = NoValue
    /\ UNCHANGED <<pending, phase, subscribers, order, failure, initial, disconnects>>

\* Gate::rhs(value)
Rhs(g, v) ==
    /\ phase[g] = "constructed"
    /\ npush < MaxPushes
    /\ Push(RHS, v)
    /\ returned' = NoValue
    /\ UNCHANGED <<pending, phase, subscribers, order, failure, initial, disconnects>>

\* a bug: result() answers from the pipeline instead of the host
ResultFromPipeline(g) ==
    /\ phase[g] = "constructed"
    /\ returned' = Str(f(expression[g].lhs, expression[g].rhs))
    /\ UNCHANGED <<pending, props, phase, expression, subscribers, order, failure,
                   initial, seen, writes, disconnects, npush>>

\* StringGate::type_name(): reads the entity's type name
type_name(g) ==
    /\ phase[g] = "constructed"
    /\ returned' = NoValue
    /\ UNCHANGED <<pending, props, phase, expression, subscribers, order, failure,
                   initial, seen, writes, disconnects, npush>>

\* Operation::result()
Result(g) ==
    /\ phase[g] = "constructed"
    /\ returned' = props[RESULT]
    /\ UNCHANGED <<pending, props, phase, expression, subscribers, order, failure,
                   initial, seen, writes, disconnects, npush>>

\* a bug: disconnect() on an unregistered gate registers the observer again
DisconnectBodyToggle(g, out) ==
    /\ out \in RemoveOutcomes(subscribers[g], handle_id)
    /\ subscribers' = [subscribers EXCEPT
           ![g] = IF subscribers[g] = <<>> THEN <<handle_id>> ELSE out.subs]
    /\ failure' = failure
    /\ disconnects' = [disconnects EXCEPT ![g] = @ + 1]

\* a bug: disconnect() leaves the observer registered
DisconnectBodyNoRemove(g, out) ==
    /\ out \in RemoveOutcomes(subscribers[g], handle_id)
    /\ subscribers' = subscribers
    /\ failure' = failure
    /\ disconnects' = [disconnects EXCEPT ![g] = @ + 1]

\* the body of Disconnectable::disconnect: internal_result.remove(handle_id)
DisconnectBody(g, out) ==
    /\ out \in RemoveOutcomes(subscribers[g], handle_id)
    /\ subscribers' = [subscribers EXCEPT ![g] = out.subs]
    /\ failure' = IF out.failed THEN "remove" ELSE failure
    /\ disconnects' = [disconnects EXCEPT ![g] = @ + 1]

\* Disconnectable::disconnect()
Disconnect(g) ==
    /\ phase[g] = "constructed"
    /\ disconnects[g] < MaxDisconnects
    /\ \E out \in RemoveOutcomes(subscribers[g], handle_id) : DisconnectBody(g, out)
    /\ returned' = NoValue
    /\ UNCHANGED <<pending, props, phase, expression, order, initial, seen, writes, npush>>

\* a bug: drop() releases the gate without disconnecting it
DropWithoutDisconnect(g) ==
    /\ phase[g] = "constructed"
    /\ phase' = [phase EXCEPT ![g] = "dropped"]
    /\ expression' = [expression EXCEPT ![g] = ExpressionNew("", "")]
    /\ returned' = NoValue
    /\ UNCHANGED <<pending, props, subscribers, failure, disconnects, order, initial,
                   seen, writes, npush>>

\* Drop::drop(): disconnect(), then the gate's fields are released
Drop(g) ==
    /\ phase[g] = "constructed"
    /\ \E out \in RemoveOutcomes(subscribers[g], handle_id) : DisconnectBody(g, out)
    /\ phase' = [phase EXCEPT ![g] = "dropped"]
    /\ expression' = [expression EXCEPT ![g] = ExpressionNew("", "")]
    /\ returned' = NoValue
    /\ UNCHANGED <<pending, props, order, initial, seen, writes, npush>>

\* an actor other than the gate writes an input property of the host
HostSet(pos, v) ==
    /\ pos \in DOMAIN props
    /\ npush < MaxPushes
    /\ Push(pos, v)
    /\ returned' = NoValue
    /\ UNCHANGED <<pending, phase, subscribers, order, failure, initial, disconnects>>

GateNext(g) ==
    \/ New(g)
    \/ \E v \in Values : Lhs(g, v)
    \/ \E v \in Values : Rhs(g, v)
    \/ Result(g)
    \/ type_name(g)
    \/ Disconnect(g)
    \/ Drop(g)

HostNext == \E pos \in {LHS, RHS}, v \in Values : HostSet(pos, v)

\* one gate on the host, every call running to completion
Next == (\E g \in SoloGates : GateNext(g)) \/ HostNext

Spec == Init /\ [][Next]_vars

\* the values pushed while two gates are attached
AttachValues == {Str("foo"), Str("bar")}

\* the behaviour is attached twice: two gates on the same host entity
NextAttach ==
    \E g \in Gates :
        \/ New(g)
        \/ \E v \in AttachValues : Lhs(g, v)
        \/ \E v \in AttachValues : Rhs(g, v)
        \/ Disconnect(g)
        \/ Drop(g)

SpecAttach == Init /\ [][NextAttach]_vars

(***************************************************************************)
(* Concurrent callers.  lhs(v) and rhs(v) are entity.set(name, v): the     *)
(* calling thread stores the value in the property, then the property's    *)
(* stream sends it.  The send of one thread runs the pipeline (merge,      *)
(* fold, map, observer) to completion before the send of another enters    *)
(* it; between a thread's store and its send other threads may run.        *)
(***************************************************************************)
\* the calls that have stored their value and not yet sent it
InFlight == {t \in Threads : pending[t] # Idle}

\* lhs(v) or rhs(v) by thread t, first half: the property's value is written
Store(t, g, pos, v) ==
    /\ pending[t] = Idle
    /\ phase[g] = "constructed"
    /\ npush < MaxPushes
    /\ props' = EntitySet(props, pos, v)
    /\ pending' = [pending EXCEPT ![t] = [pos |-> pos, v |-> v]]
    /\ npush' = npush + 1
    /\ returned' = NoValue
    /\ UNCHANGED <<phase, expression, subscribers, order, failure, initial,
                   seen, writes, disconnects>>

\* Operation::lhs(value) called by thread t
LhsStore(t, g, v) == Store(t, g, LHS, v)

\* Gate::rhs(value) called by thread t
RhsStore(t, g, v) == Store(t, g, RHS, v)

\* second half: the property's stream sends the value; the call returns
Send(t) ==
    /\ pending[t] # Idle
    /\ Propagate(props, pending[t].pos, pending[t].v)
    /\ pending' = [pending EXCEPT ![t] = Idle]
    /\ UNCHANGED <<phase, subscribers, order, failure, returned, initial,
                   disconnects, npush>>

NextConc ==
    \/ \E g \in SoloGates : New(g)
    \/ \E t \in Threads, g \in SoloGates, v \in Values : LhsStore(t, g, v)
    \/ \E t \in Threads, g \in SoloGates, v \in Values : RhsStore(t, g, v)
    \/ \E t \in Threads : Send(t)

SpecConc == Init /\ [][NextConc]_vars

(***************************************************************************)
(* What the properties below are stated with.                              *)
(***************************************************************************)
\* the String a pushed Value stands for: its text if it is a JSON string,
\* else the side's schema default
Decoded(pos, v) == IF v.kind = "string" THEN v.s ELSE ""

\* the last value pushed on `pos` in a log of pushes, or the default
LastPushed(log, pos) ==
    LET idx == {i \in 1..Len(log) : log[i].pos = pos}
    IN  IF idx = {} THEN ""
        ELSE Decoded(pos, log[CHOOSE i \in idx : \A j \in idx : j <= i].v)

\* the first i pushes gate g received
Prefix(g, i) == SubSeq(seen[g], 1, i)

\* f of the last value of each side among the first i pushes gate g received
Derived(g, i) == Str(f(LastPushed(Prefix(g, i), LHS), LastPushed(Prefix(g, i), RHS)))

\* the values gate g's observer wrote to RESULT, in order
WritesOf(g) == SelectSeq(writes, LAMBDA w : w.gate = g)

\* the pushes gate g received while no disconnect() had been called on it
ConnectedPushes(g) == {i \in 1..Len(seen[g]) : seen[g][i].conn}

\* RESULT just before the i-th push gate g received (single-gate runs)
ResultBefore(g, i) == IF i = 1 THEN initial[RESULT] ELSE seen[g][i - 1].res

(***************************************************************************)
(* C1: for a connected gate, when a push returns, RESULT = f(L, R) with    *)
(* the pushed side holding the decoded pushed value and the other side its *)
(* last pushed value, or its default if it was never pushed; so the first  *)
(* LHS push yields f(v, default) and the first RHS push f(default, v).     *)
(***************************************************************************)
C1_ResultAfterPush ==
    \A g \in SoloGates : \A i \in ConnectedPushes(g) :
        LET e == seen[g][i]
            other == IF e.pos = LHS THEN RHS ELSE LHS
            mine == Decoded(e.pos, e.v)
            theirs == LastPushed(Prefix(g, i - 1), other)
        IN  e.res = Str(IF e.pos = LHS THEN f(mine, theirs) ELSE f(theirs, mine))

C1_Witness ==
    /\ Connected(1) /\ Len(seen[1]) = 3
    /\ seen[1][1].pos = RHS /\ seen[1][1].res = Str("bar")
    /\ seen[1][2].pos = LHS /\ seen[1][2].res = Str("foobar")
    /\ seen[1][3].pos = LHS /\ seen[1][3].res = Str("bazbar")

(***************************************************************************)
(* C2: after any interleaving of LHS and RHS pushes the Expression state   *)
(* holds, per side, the last value pushed on it (or the side's default):   *)
(* a later arrival overwrites an earlier one whatever the values.          *)
(***************************************************************************)
C2_FoldHoldsLastPushed ==
    \A g \in SoloGates :
        phase[g] = "constructed" =>
            expression[g] = [lhs |-> LastPushed(seen[g], LHS),
                             rhs |-> LastPushed(seen[g], RHS)]

C2_Witness ==
    /\ phase[1] = "constructed" /\ Len(seen[1]) = 3
    /\ seen[1][1].pos = LHS /\ seen[1][1].v = Str("foo")
    /\ seen[1][2].pos = RHS /\ seen[1][2].v = Str("foo")
    /\ seen[1][3].pos = LHS /\ seen[1][3].v = Str("bar")
    /\ expression[1] = [lhs |-> "bar", rhs |-> "foo"]

(***************************************************************************)
(* C3: once disconnect() has been called, no push makes the gate write     *)
(* RESULT: every later push leaves RESULT as it was, and the gate's        *)
(* observer has written once per push received before the disconnect.      *)
(***************************************************************************)
C3_NoWriteAfterDisconnect ==
    \A g \in SoloGates :
        /\ \A i \in 1..Len(seen[g]) :
              ~seen[g][i].conn => seen[g][i].res = ResultBefore(g, i)
        /\ Len(WritesOf(g)) = Cardinality(ConnectedPushes(g))

C3_Witness ==
    /\ phase[1] = "constructed" /\ Len(seen[1]) = 3
    /\ seen[1][1].conn /\ ~seen[1][2].conn /\ ~seen[1][3].conn
    /\ seen[1][2].pos = LHS /\ seen[1][3].pos = RHS
    /\ props[RESULT] = seen[1][1].res
    /\ props[RESULT] # Str(InternalResult(expression[1]))

(***************************************************************************)
(* C4: concatenation gate, defaults "": push LHS="foo" gives RESULT "foo", *)
(* then push RHS="bar" gives "foobar", then after disconnect() a push      *)
(* LHS="baz" leaves RESULT "foobar".                                       *)
(***************************************************************************)
C4_Scenario ==
    LET s == seen[1]
        step1 == Len(s) >= 1 /\ s[1].pos = LHS /\ s[1].v = Str("foo") /\ s[1].conn
        step2 == step1 /\ Len(s) >= 2 /\ s[2].pos = RHS /\ s[2].v = Str("bar") /\ s[2].conn
        step3 == step2 /\ Len(s) >= 3 /\ s[3].pos = LHS /\ s[3].v = Str("baz") /\ ~s[3].conn
    IN  /\ step1 => s[1].res = Str("foo")
        /\ step2 => s[2].res = Str("foobar")
        /\ step3 => s[3].res = Str("foobar")

C4_Witness ==
    /\ Len(seen[1]) = 3
    /\ seen[1][1].pos = LHS /\ seen[1][1].v = Str("foo") /\ seen[1][1].conn
    /\ seen[1][2].pos = RHS /\ seen[1][2].v = Str("bar") /\ seen[1][2].conn
    /\ seen[1][3].pos = LHS /\ seen[1][3].v = Str("baz") /\ ~seen[1][3].conn
    /\ props[LHS] = Str("baz") /\ props[RESULT] = Str("foobar")

(***************************************************************************)
(* C5: a pushed value that is not a string raises no error and does not    *)
(* stop the propagation: the event is folded, the pushed side of the       *)
(* Expression becomes the side's default, and RESULT is f with it.         *)
(***************************************************************************)
C5_NonStringBecomesDefault ==
    \A g \in SoloGates : \A i \in 1..Len(seen[g]) :
        LET e == seen[g][i]
            before == Prefix(g, i - 1)
        IN  e.v.kind # "string" =>
              /\ e.conn => e.res = Str(IF e.pos = LHS
                                         THEN f("", LastPushed(before, RHS))
                                         ELSE f(LastPushed(before, LHS), ""))
              /\ (i = Len(seen[g]) /\ phase[g] = "constructed") =>
                     expression[g][e.pos] = ""
              /\ Connected(g) => failure = "none"

C5_Witness ==
    /\ Connected(1) /\ Len(seen[1]) = 3
    /\ seen[1][1].pos = LHS /\ seen[1][1].v = Str("foo")
    /\ seen[1][2].pos = RHS /\ seen[1][2].v = Str("bar")
    /\ seen[1][3].pos = LHS /\ seen[1][3].v = Number
    /\ props[LHS] = Number /\ props[RESULT] = Str("bar")
    /\ expression[1] = [lhs |-> "", rhs |-> "bar"]

(***************************************************************************)
(* C6: events are folded in arrival order: the RESULT writes of a gate     *)
(* are, in order, f after the 1st push, f after the 2nd push, ...; so      *)
(* LHS=a then LHS=b gives exactly the two writes f(a, R), f(b, R).         *)
(***************************************************************************)
C6_WritesInArrivalOrder ==
    \A g \in SoloGates :
        LET n == Cardinality(ConnectedPushes(g))
        IN  /\ ConnectedPushes(g) = 1..n
            /\ [i \in 1..Len(WritesOf(g)) |-> Str(WritesOf(g)[i].value)]
                   = [i \in 1..n |-> Derived(g, i)]

C6_Witness ==
    /\ Len(seen[1]) = 3 /\ Len(writes) = 3
    /\ seen[1][1].pos = RHS /\ seen[1][1].v = Str("baz")
    /\ seen[1][2].pos = LHS /\ seen[1][2].v = Str("foo")
    /\ seen[1][3].pos = LHS /\ seen[1][3].v = Str("bar")
    /\ writes[2].value = "foobaz" /\ writes[3].value = "barbaz"

(***************************************************************************)
(* C7: disconnect() is idempotent: invoked on a gate that is already       *)
(* unregistered (by an explicit call or by drop) it leaves the gate        *)
(* unregistered, changes no host property and produces no failure.         *)
(***************************************************************************)
C7_DisconnectIdempotent ==
    [][\A g \in SoloGates :
          (disconnects[g] >= 1 /\ disconnects'[g] = disconnects[g] + 1) =>
              /\ subscribers'[g] = <<>>
              /\ props' = props
              /\ failure' = failure]_vars

(***************************************************************************)
(* C8: on every destruction path the observer is deregistered before the   *)
(* gate is released: once the gate is dropped, none of its observers is    *)
(* registered and no later push writes RESULT for it.                      *)
(***************************************************************************)
C8_DroppedGateIsSilent ==
    \A g \in SoloGates :
        phase[g] = "dropped" =>
            /\ subscribers[g] = <<>>
            /\ Len(WritesOf(g)) = Cardinality(ConnectedPushes(g))
            /\ props[RESULT] = IF seen[g] = <<>> THEN initial[RESULT]
                                                 ELSE seen[g][Len(seen[g])].res

C8_Witness ==
    /\ phase[1] = "dropped" /\ disconnects[1] = 1
    /\ Len(seen[1]) = 1 /\ npush = 3
    /\ props[LHS] = Str("baz") /\ props[RHS] = Str("bar")
    /\ props[RESULT] = Str("foo")

(***************************************************************************)
(* C9: result() returns the host's current RESULT property: the last       *)
(* value the observer wrote, or, if the observer never wrote, the value    *)
(* RESULT held before the gate was constructed.                            *)
(***************************************************************************)
C9_ResultReadsHost ==
    \A g \in SoloGates :
        returned # NoValue =>
            /\ returned = props[RESULT]
            /\ returned = IF WritesOf(g) = <<>> THEN initial[RESULT]
                          ELSE Str(WritesOf(g)[Len(WritesOf(g))].value)

C9_Witness ==
    /\ returned = Str("old") /\ writes = <<>>
    /\ phase[1] = "constructed" /\ seen[1] = <<>> /\ npush = 0

C11_OneObserverPerResult ==
    /\ Cardinality({g \in Gates : subscribers[g] # <<>>}) <= 1
    /\ Len(writes) <= npush

C13_GateCallIsHostWrite ==
    [][\A g \in SoloGates :
          (phase[g] = "constructed" /\ npush' = npush + 1) =>
              LET v == seen'[g][Len(seen'[g])].v
              IN  /\ Lhs(g, v) <=> HostSet(LHS, v)
                  /\ Rhs(g, v) <=> HostSet(RHS, v)
                  /\ Lhs(g, v) \/ Rhs(g, v)]_vars

C13_Witness ==
    /\ Connected(1) /\ Len(seen[1]) = 2
    /\ seen[1][1].pos = RHS /\ seen[1][2].pos = LHS
    /\ props[LHS] = Str("foo") /\ props[RHS] = Str("bar")
    /\ expression[1] = [lhs |-> "foo", rhs |-> "bar"]
    /\ props[RESULT] = Str("foobar")

(***************************************************************************)
(* C14: while the gate is registered every push gives exactly one write to *)
(* RESULT: n pushes give n writes, none dropped or deduplicated (a push of *)
(* the side's current value writes again), and the propagation of a push   *)
(* ends after that write.                                                  *)
(***************************************************************************)
C14_OneWritePerPush ==
    \A g \in SoloGates :
        Connected(g) =>
            /\ Len(writes) = Len(seen[g])
            /\ \A i \in 1..Len(seen[g]) :
                  /\ i <= Len(writes)
                  /\ writes[i].gate = g
                  /\ Str(writes[i].value) = seen[g][i].res

C14_Witness ==
    /\ Connected(1) /\ Len(seen[1]) = 3 /\ Len(writes) = 3
    /\ \A i \in 1..3 : seen[1][i].pos = LHS /\ seen[1][i].v = Str("foo")
    /\ \A i \in 1..3 : writes[i].value = "foo"

(***************************************************************************)
(* C15: a fold step changes only the field the event's tag names: an LHS   *)
(* event leaves rhs as it was, an RHS event leaves lhs as it was.          *)
(***************************************************************************)
C15_FoldFrame ==
    [][\A g \in SoloGates :
          (phase[g] = "constructed" /\ Len(seen'[g]) = Len(seen[g]) + 1) =>
              LET e == seen'[g][Len(seen'[g])]
              IN  /\ e.pos = LHS => expression'[g].rhs = expression[g].rhs
                  /\ e.pos = RHS => expression'[g].lhs = expression[g].lhs]_vars

C15_Witness ==
    /\ phase[1] = "constructed" /\ Len(seen[1]) = 3
    /\ seen[1][1].pos = LHS /\ seen[1][1].v = Str("foo")
    /\ seen[1][2].pos = RHS /\ seen[1][2].v = Str("bar")
    /\ seen[1][3].pos = RHS /\ seen[1][3].v = Number
    /\ expression[1] = [lhs |-> "foo", rhs |-> ""]

(***************************************************************************)
(* C16: the observer writes RESULT only: lhs(v) changes LHS and RESULT but *)
(* never RHS, rhs(v) changes RHS and RESULT but never LHS, and no other    *)
(* call changes LHS or RHS.                                                *)
(***************************************************************************)
C16_WritesFrame ==
    [][\A g \in SoloGates :
          /\ (phase[g] = "constructed" /\ Len(seen'[g]) = Len(seen[g]) + 1) =>
                LET e == seen'[g][Len(seen'[g])]
                    other == IF e.pos = LHS THEN RHS ELSE LHS
                IN  props'[e.pos] = e.v /\ props'[other] = props[other]
          /\ npush' = npush => props' = props]_vars

C16_Witness ==
    /\ Connected(1) /\ Len(seen[1]) = 3
    /\ seen[1][1].pos = LHS /\ seen[1][2].pos = RHS /\ seen[1][3].pos = RHS
    /\ props[LHS] = Str("baz") /\ props[RHS] = Str("foo")
    /\ props[RESULT] = Str("bazfoo") /\ seen[1][2].res = Str("bazbar")

(***************************************************************************)
(* C17: deregistration is single-shot: over the life of a gate (new, any   *)
(* number of disconnect() calls, drop) the observer's removal is invoked   *)
(* only while the handle is registered.                                    *)
(***************************************************************************)
C17_RemoveOnlyWhenRegistered ==
    [][\A g \in SoloGates :
          disconnects'[g] = disconnects[g] + 1 =>
              \E i \in 1..Len(subscribers[g]) : subscribers[g][i] = handle_id]_vars

(***************************************************************************)
(* C18: for one gate Unregistered is absorbing: after disconnect() no call *)
(* of the gate (lhs, rhs, result, disconnect, type_name, drop) registers   *)
(* its observer again.                                                     *)
(***************************************************************************)
C18_UnregisteredIsAbsorbing ==
    [][\A g \in SoloGates :
          disconnects[g] >= 1 =>
              subscribers[g] = <<>> /\ subscribers'[g] = <<>>]_vars

C18_Witness ==
    /\ phase[1] = "constructed" /\ disconnects[1] = 2
    /\ Len(seen[1]) = 3 /\ seen[1][1].conn /\ ~seen[1][2].conn
    /\ seen[1][2].pos = LHS /\ seen[1][3].pos = RHS
    /\ returned = props[RESULT] /\ subscribers[1] = <<>>

(***************************************************************************)
(* C19: disconnect() stops only the write to RESULT: afterwards lhs(v)     *)
(* still sets the host's LHS to v, rhs(v) still sets RHS to v and result() *)
(* still returns the host's RESULT, which stays as it was at disconnect()  *)
(* and may differ from f of the host's input properties.                   *)
(***************************************************************************)
C19_DisconnectedGateStillSets ==
    \A g \in SoloGates :
        (phase[g] = "constructed" /\ disconnects[g] >= 1) =>
            /\ \A pos \in {LHS, RHS} :
                  LET after == {i \in 1..Len(seen[g]) :
                                   seen[g][i].pos = pos /\ ~seen[g][i].conn}
                  IN  after # {} =>
                        props[pos] = seen[g][CHOOSE i \in after :
                                                \A j \in after : j <= i].v
            /\ props[RESULT] =
                  IF ConnectedPushes(g) = {} THEN initial[RESULT]
                  ELSE seen[g][Cardinality(ConnectedPushes(g))].res
            /\ returned # NoValue => returned = props[RESULT]

C19_Witness ==
    /\ phase[1] = "constructed" /\ disconnects[1] = 1 /\ Len(seen[1]) = 3
    /\ seen[1][1].conn /\ ~seen[1][2].conn /\ ~seen[1][3].conn
    /\ props[LHS] = Str("baz") /\ props[RHS] = Str("bar")
    /\ props[RESULT] = Str("foo") /\ returned = Str("foo")


====
